---- MODULE Spec2Model ----
(***************************************************************************)
(* ulm: manpage indexing (setup / update) and the state the query phase    *)
(* reads.  The persistent state is the manpage files, the change tracker   *)
(* file (index_metadata.json), the configuration file (config.toml) and    *)
(* the LanceDB table 'manpages'.  One run of run_indexing is a sequence of *)
(* steps, each one I/O operation of the source, any of which may fail.     *)
(***************************************************************************)
EXTENDS Integers, Sequences, FiniteSets, TLC

\* ------------------------------------------------------------------ bounds
NumPaths == 2
NumContents == 2
MaxEvents == 3
MaxLen == 2
MaxSuggestions == 3
MaxCmdLen == 2
MaxDoc == 2
NumDescriptors == 3
NumPipelinePaths == 9

Paths == 1..NumPaths
Contents == 1..NumContents

\* ------------------------------------------------------- values of the model
\* A file is absent, present but not hashable (open or read fails), or holds
\* one of the byte contents.
Absent == 0
Unreadable == -1
FileStates == {Absent, Unreadable} \cup Contents

\* A path without an entry in IndexMetadata.files.
NoHash == 0
\* IndexConfig.embedding_dimension = None / last_embedding_model = None.
NoDim == 0
NoModel == "none"

EMBEDDING_MODEL == "nomic-embed-text"
Models == {"nomic-embed-text", "mxbai-embed-large"}

\* Vector length an embedding model produces.
Dim(model) == IF model = "nomic-embed-text" THEN 768 ELSE 1024

\* blake3 of a content: injective on the contents, and never the content.
Blake3(c) == 100 + c
Hashes == {Blake3(c) : c \in Contents}

RangeOf(s) == {s[i] : i \in 1..Len(s)}

\* ------------------------------------------------------ change tracker (C4)
\* compute_file_hash: Err when the file cannot be opened or read.
compute_file_hash(fs, path) ==
    IF fs[path] \in Contents
    THEN [ok |-> TRUE, hash |-> Blake3(fs[path])]
    ELSE [ok |-> FALSE, hash |-> NoHash]

IndexMetadata_default == [p \in Paths |-> NoHash]

\* IndexMetadata::load().unwrap_or_default(): a missing file and a failed
\* read or parse both give the empty tracker.
IndexMetadata_load(tf, readOk) ==
    IF tf.exists /\ readOk THEN tf.files ELSE IndexMetadata_default

\* remove_deleted: retain only the entries whose path exists.
remove_deleted(meta, fs) ==
    [p \in Paths |-> IF fs[p] = Absent THEN NoHash ELSE meta[p]]

RECURSIVE filter_loop(_, _, _, _, _)
filter_loop(meta, fs, paths, to_process, unch) ==
    IF paths = <<>>
    THEN [to_process |-> to_process, unchanged |-> unch]
    ELSE LET path == Head(paths)
             h == compute_file_hash(fs, path)
         IN  IF h.ok
             THEN IF meta[path] # NoHash /\ h.hash = meta[path]
                  THEN filter_loop(meta, fs, Tail(paths), to_process, unch + 1)
                  ELSE filter_loop(meta, fs, Tail(paths), Append(to_process, path), unch)
             ELSE filter_loop(meta, fs, Tail(paths), Append(to_process, path), unch)

\* Mutant: a path whose hashing fails is skipped instead of pushed.
RECURSIVE filter_loop_skip_err(_, _, _, _, _)
filter_loop_skip_err(meta, fs, paths, to_process, unch) ==
    IF paths = <<>>
    THEN [to_process |-> to_process, unchanged |-> unch]
    ELSE LET path == Head(paths)
             h == compute_file_hash(fs, path)
         IN  IF h.ok
             THEN IF meta[path] # NoHash /\ h.hash = meta[path]
                  THEN filter_loop_skip_err(meta, fs, Tail(paths), to_process, unch + 1)
                  ELSE filter_loop_skip_err(meta, fs, Tail(paths), Append(to_process, path), unch)
             ELSE filter_loop_skip_err(meta, fs, Tail(paths), to_process, unch)

filter_changed_skip_err(meta, fs, paths) == filter_loop_skip_err(meta, fs, paths, <<>>, 0)

\* Mutant: the `continue` after `unchanged += 1` is missing, so an unchanged
\* path is pushed as well.
filter_changed_no_continue(meta, fs, paths) ==
    [to_process |-> paths, unchanged |-> filter_loop(meta, fs, paths, <<>>, 0).unchanged]

filter_changed(meta, fs, paths) == filter_loop(meta, fs, paths, <<>>, 0)

\* Mutant: entry().or_insert(): a stored hash is never overwritten.
update_hashes_or_insert(meta, fs, paths) ==
    [p \in Paths |->
        IF p \in RangeOf(paths) /\ compute_file_hash(fs, p).ok /\ meta[p] = NoHash
        THEN compute_file_hash(fs, p).hash
        ELSE meta[p]]

\* update_hashes: insert the fresh hash of every path that can be hashed.
update_hashes(meta, fs, paths) ==
    [p \in Paths |->
        IF p \in RangeOf(paths) /\ compute_file_hash(fs, p).ok
        THEN compute_file_hash(fs, p).hash
        ELSE meta[p]]

\* -------------------------------------------------------- config store (C5)
Config_default ==
    [exists |-> FALSE,
     embedding_model |-> "nomic-embed-text",
     embedding_dimension |-> NoDim,
     last_embedding_model |-> NoModel]

\* load_config: the default configuration when the file does not exist.
load_config(cfg) == IF cfg.exists THEN cfg ELSE Config_default

update_index_metadata(cfg, dimension) ==
    [cfg EXCEPT !.embedding_dimension = dimension,
                !.last_embedding_model = cfg.embedding_model]

\* Mutant: the recorded model is never compared with the configured one.
needs_index_rebuild_never(cfg) == FALSE

needs_index_rebuild(cfg) ==
    IF cfg.last_embedding_model # NoModel
    THEN cfg.last_embedding_model # cfg.embedding_model
    ELSE FALSE

\* The checks search_tools makes before it embeds the query.
FingerprintCheck(idx, cfgFile) ==
    LET cfg == load_config(cfgFile)
    IN  IF ~idx.exists THEN "IndexMissing"
        ELSE IF needs_index_rebuild(cfg) THEN "IndexStale"
        ELSE IF cfg.last_embedding_model = NoModel THEN "IndexFingerprintUnknown"
        ELSE "pass"

\* ------------------------------------------------------------- page source
\* scan_directories: the manpage files that exist, in directory order.
RECURSIVE ScanFrom(_, _)
ScanFrom(fs, p) ==
    IF p > NumPaths THEN <<>>
    ELSE IF fs[p] # Absent THEN <<p>> \o ScanFrom(fs, p + 1)
    ELSE ScanFrom(fs, p + 1)

scan_directories(fs) == ScanFrom(fs, 1)

\* ------------------------------------------------ interactive selector (C11)
\* The commands a suggestion can carry.
CommandSet == {"c1", "c2"}
SuggestionLists == UNION {[1..n -> CommandSet] : n \in 0..MaxSuggestions}

\* Option<String> status_message: None or a message.
NoStatus == "none"
StatusValues == {NoStatus, "Copied!"}

\* UserAction, and None for Option<UserAction>.
UserAction(k, c) == [kind |-> k, cmd |-> c]
NoCmd == "none"
NoAction == UserAction("None", NoCmd)
Abort == UserAction("Abort", NoCmd)

\* KeyCode values: the named keys, then Char(c).
NamedKeys == {"Up", "Down", "Enter", "Esc", "Tab"}
DigitChars == {"0", "1", "2", "3", "4", "9"}
CharKeys == {"k", "j", "a", "A", "K", "b", "B", "q", "c", "x"} \cup DigitChars
KeyCodes == NamedKeys \cup CharKeys

\* crossterm Event: a key with its CONTROL modifier, or another event.
NoEvent == [type |-> "None", code |-> "none", ctrl |-> FALSE]
Events ==
    {[type |-> "Key", code |-> c, ctrl |-> m] : c \in KeyCodes, m \in BOOLEAN}
    \cup {[type |-> "Resize", code |-> "none", ctrl |-> FALSE]}

\* char::to_digit(10)
to_digit(c) ==
    ("0" :> 0 @@ "1" :> 1 @@ "2" :> 2 @@ "3" :> 3 @@ "4" :> 4 @@ "9" :> 9)[c]

App_new(suggs) == [suggestions |-> suggs, selected |-> 0, status_message |-> NoStatus]

select_previous(a) ==
    IF Len(a.suggestions) = 0 THEN a
    ELSE IF a.selected = 0
         THEN [a EXCEPT !.selected = Len(a.suggestions) - 1]
         ELSE [a EXCEPT !.selected = a.selected - 1]

\* Mutant: no wrap-around, the selection stops at the last item.
select_next_clamp(a) ==
    IF Len(a.suggestions) = 0 THEN a
    ELSE IF a.selected + 1 < Len(a.suggestions)
         THEN [a EXCEPT !.selected = a.selected + 1]
         ELSE a

select_next(a) ==
    IF Len(a.suggestions) = 0 THEN a
    ELSE [a EXCEPT !.selected = (a.selected + 1) % Len(a.suggestions)]

\* Mutant: the first suggestion is returned whatever is selected.
selected_suggestion_first(a) ==
    IF 0 < Len(a.suggestions)
    THEN [some |-> TRUE, command |-> a.suggestions[1]]
    ELSE [some |-> FALSE, command |-> NoCmd]

\* self.suggestions.get(self.selected); indices are 0-based in the source.
selected_suggestion(a) ==
    IF a.selected < Len(a.suggestions)
    THEN [some |-> TRUE, command |-> a.suggestions[a.selected + 1]]
    ELSE [some |-> FALSE, command |-> NoCmd]

set_status(a, message) == [a EXCEPT !.status_message = message]
clear_status(a) == [a EXCEPT !.status_message = NoStatus]

\* selected_suggestion().map(|s| UserAction::X(s.command.clone()))
EmitSelected(a, k) ==
    LET s == selected_suggestion(a)
    IN  IF s.some THEN UserAction(k, s.command) ELSE NoAction

Handled(a, act) == [app |-> a, action |-> act]

\* Mutant: the Edit arm is missing, b and B fall to the ignored keys.
handle_key_no_edit(a0, key) ==
    LET a == clear_status(a0)
    IN  IF key.code \in {"Up", "k"} THEN Handled(select_previous(a), NoAction)
        ELSE IF key.code \in {"Down", "j"} THEN Handled(select_next(a), NoAction)
        ELSE IF key.code \in {"Enter", "a", "A"} THEN Handled(a, EmitSelected(a, "Execute"))
        ELSE IF key.code = "K" THEN Handled(a, EmitSelected(a, "Copy"))
        ELSE IF key.code \in {"Esc", "q"} THEN Handled(a, Abort)
        ELSE IF key.code = "c" /\ key.ctrl THEN Handled(a, Abort)
        ELSE IF key.code \in DigitChars
             THEN LET num == to_digit(key.code)
                  IN  IF num > 0 /\ num <= Len(a.suggestions)
                      THEN Handled([a EXCEPT !.selected = num - 1], NoAction)
                      ELSE Handled(a, NoAction)
        ELSE Handled(a, NoAction)

\* handle_key: the match arms in source order.
handle_key(a0, key) ==
    LET a == clear_status(a0)
    IN  IF key.code \in {"Up", "k"} THEN Handled(select_previous(a), NoAction)
        ELSE IF key.code \in {"Down", "j"} THEN Handled(select_next(a), NoAction)
        ELSE IF key.code \in {"Enter", "a", "A"} THEN Handled(a, EmitSelected(a, "Execute"))
        ELSE IF key.code = "K" THEN Handled(a, EmitSelected(a, "Copy"))
        ELSE IF key.code \in {"b", "B"} THEN Handled(a, EmitSelected(a, "Edit"))
        ELSE IF key.code \in {"Esc", "q"} THEN Handled(a, Abort)
        ELSE IF key.code = "c" /\ key.ctrl THEN Handled(a, Abort)
        ELSE IF key.code \in DigitChars
             THEN LET num == to_digit(key.code)
                  IN  IF num > 0 /\ num <= Len(a.suggestions)
                      THEN Handled([a EXCEPT !.selected = num - 1], NoAction)
                      ELSE Handled(a, NoAction)
        ELSE Handled(a, NoAction)

\* handle_event: only key events are handled.
handle_event(a, ev) ==
    IF ev.type = "Key" THEN handle_key(a, ev) ELSE Handled(a, NoAction)

VARIABLES
    files,            \* path -> FileStates
    trackerFile,      \* index_metadata.json: [exists, files]
    config,           \* config.toml: [exists, embedding_model, ...]
    index,            \* table 'manpages': [exists, rows]
    pc,               \* position of the running command
    kind,             \* "setup" or "update"
    loaded,           \* IndexMetadata::load() returned Ok
    metadata,         \* the in-memory IndexMetadata of the run
    all_paths,        \* run_indexing: all_paths
    paths_to_process, \* run_indexing: paths_to_process
    unchanged,        \* run_indexing: unchanged
    outcome,          \* what the pipeline did with each path of this run
    entries,          \* run_indexing: entries
    result,           \* what the command returned
    calls,            \* the writes and create_index calls of this run, in order
    refiltered,       \* the result of a second filter_changed over all_paths
    prev,             \* the persistent state when run_indexing started
    check0,           \* FingerprintCheck when the command started
    lastOk,           \* the previous command returned Ok
    modified,         \* paths overwritten since the tracker was last current
    reshaped,         \* a file was added, removed or made unreadable since
    runs,
    edits,
    app,              \* tui::App of the selector
    action,           \* the UserAction the selector returned
    event,            \* the last event the selector handled
    app0,             \* the App before that event
    llm_model,        \* config.toml: models.llm_model
    suggestions,      \* process_query_flow: suggestions
    qcalls,           \* the calls of the query flow, in order
    qerr,             \* the error the query flow returned
    exit,             \* the exit status of the process
    raw,              \* the terminal is in raw mode
    alt,              \* the terminal shows the alternate screen
    tui_result,       \* how run_tui ended
    response,         \* the document generate returned
    parsed,           \* the Result of parse_suggestions
    prompt_in,        \* build_prompt: byte lengths of query, page and context
    prompt_len,       \* build_prompt: byte length of the returned prompt
    server,           \* the models the Ollama server has
    chosen,           \* run_setup: embedding_model_name and llm_model_name
    installed_names,  \* run_setup: the names list_models() returned
    pulls,            \* run_setup: the pull calls and their results, in order
    setup_result,     \* run_setup: how far it came
    undrawn,          \* pipeline: paths no extractor has drawn yet
    extracting,       \* pipeline: extractions in progress
    blocked,          \* pipeline: extractors waiting to send a descriptor
    chan,             \* pipeline: descriptors in the channel
    embedding,        \* pipeline: descriptors an embedder is working on
    sink,             \* pipeline: entries produced
    extract_errors,   \* pipeline: paths dropped by the extract stage
    embed_errors,     \* pipeline: descriptors dropped by the embed stage
    item,             \* embedder: the descriptor being embedded
    attempt,          \* generate_with_retry: attempt
    attempts,         \* the embed calls made, in order
    sleeps            \* the delays slept, in order

vars == <<files, trackerFile, config, index, pc, kind, loaded, metadata,
          all_paths, paths_to_process, unchanged, outcome, entries, result,
          calls, refiltered, prev, check0, lastOk, modified, reshaped, runs, edits,
          app, action, event, app0, llm_model, suggestions, qcalls, qerr, exit,
          raw, alt, tui_result, response, parsed, prompt_in, prompt_len,
          server, chosen, installed_names, pulls, setup_result,
          undrawn, extracting, blocked, chan, embedding, sink, extract_errors,
          embed_errors, item, attempt, attempts, sleeps>>

disk == <<files, trackerFile, config, index>>
selVars == <<app, action, event, app0>>
queryVars == <<selVars, llm_model, suggestions, qcalls, qerr, exit>>
termVars == <<raw, alt, tui_result>>
parseVars == <<response, parsed>>
promptVars == <<prompt_in, prompt_len>>
setupVars == <<server, chosen, installed_names, pulls, setup_result>>
pipeVars == <<undrawn, extracting, blocked, chan, embedding, sink, extract_errors,
              embed_errors>>
retryVars == <<item, attempt, attempts, sleeps>>
auxVars == <<termVars, parseVars, promptVars, setupVars, pipeVars, retryVars>>
runVars == <<kind, loaded, metadata, all_paths, paths_to_process, unchanged,
             outcome, entries, result, calls, prev, check0>>
ghost == <<lastOk, modified, reshaped, runs, edits, refiltered, queryVars, auxVars>>

NoFilter == [to_process |-> <<>>, unchanged |-> 0]
NoResult == [status |-> "none", count |-> 0]
NoIndex == [exists |-> FALSE, rows |-> {}]
NoTracker == [exists |-> FALSE, files |-> IndexMetadata_default]
NoOutcome == [p \in Paths |-> "none"]
NoExit == -1
\* The error a query returned: its kind and, for IndexStale, the two models.
QueryError(k, old, new) == [kind |-> k, old |-> old, new |-> new]
NoError == QueryError("none", "none", "none")

\* The terminal outside run_tui.
TermIdle ==
    /\ raw = FALSE
    /\ alt = FALSE
    /\ tui_result = "none"

\* No response was parsed.
NotJson == [json |-> FALSE, suggestions |-> <<>>]
NoParse == [status |-> "none", suggestions |-> <<>>]
ParseIdle ==
    /\ response = NotJson
    /\ parsed = NoParse

\* build_prompt was not called.
PromptInput(q, page, w, ctx) == [query |-> q, page |-> page, width |-> w, context |-> ctx]
NoPromptLen == -1
PromptIdle ==
    /\ prompt_in = PromptInput(0, 0, 1, 0)
    /\ prompt_len = NoPromptLen

\* A model name: base and tag; a name without a tag has tag NoTag.
ModelName(base, tag) == [base |-> base, tag |-> tag]
NoTag == "none"

\* run_setup was not called.
SetupIdle ==
    /\ server = {}
    /\ chosen = [embedding |-> ModelName("nomic-embed-text", NoTag),
                 llm |-> ModelName("llama3.2", "3b")]
    /\ installed_names = {}
    /\ pulls = <<>>
    /\ setup_result = "none"

\* No pipeline is running.
PipeIdle ==
    /\ undrawn = 0
    /\ extracting = 0
    /\ blocked = 0
    /\ chan = 0
    /\ embedding = 0
    /\ sink = 0
    /\ extract_errors = 0
    /\ embed_errors = 0

RetryIdle ==
    /\ item = 0
    /\ attempt = 0
    /\ attempts = <<>>
    /\ sleeps = <<>>

AuxIdle == TermIdle /\ ParseIdle /\ PromptIdle /\ SetupIdle /\ PipeIdle /\ RetryIdle

\* The query flow and the selector before `ulm <query>` starts.
QueryIdle ==
    /\ app = App_new(<<>>)
    /\ action = NoAction
    /\ event = NoEvent
    /\ app0 = App_new(<<>>)
    /\ llm_model = "llama3.2:3b"
    /\ suggestions = <<>>
    /\ qcalls = <<>>
    /\ qerr = NoError
    /\ exit = NoExit

NoPrev == [index |-> NoIndex, trackerFile |-> NoTracker, config |-> Config_default,
           modified |-> {}, reshaped |-> FALSE, lastOk |-> FALSE]

\* The run variables between two commands.
RunReset ==
    /\ kind' = "none"
    /\ loaded' = FALSE
    /\ metadata' = IndexMetadata_default
    /\ all_paths' = <<>>
    /\ paths_to_process' = <<>>
    /\ unchanged' = 0
    /\ outcome' = NoOutcome
    /\ entries' = <<>>
    /\ result' = NoResult
    /\ calls' = <<>>
    /\ prev' = NoPrev
    /\ check0' = "none"

\* ------------------------------------------------- embedding pipeline (C6)
\* What the pipeline does with one path: "ok" when it was extracted and
\* embedded, "dropped" when extraction failed or every embed attempt failed.
PipelineOutcomes == {"ok", "dropped"}
OkOutcomes == {"ok"}

\* EmbeddingGenerator::new(): the generator embeds with EMBEDDING_MODEL.
EmbeddingGenerator_model == EMBEDDING_MODEL

ManpageEntry(path, fs, model) ==
    [path |-> path, content |-> fs[path], model |-> model, dim |-> Dim(model)]

\* generate_embeddings_pipelined: the entries of the paths that were extracted
\* and embedded; failed paths are dropped.
RECURSIVE generate_embeddings_pipelined(_, _, _, _)
generate_embeddings_pipelined(paths, fs, oc, model) ==
    IF paths = <<>> THEN <<>>
    ELSE IF oc[Head(paths)] \in OkOutcomes
         THEN <<ManpageEntry(Head(paths), fs, model)>>
              \o generate_embeddings_pipelined(Tail(paths), fs, oc, model)
         ELSE generate_embeddings_pipelined(Tail(paths), fs, oc, model)

\* ---------------------------------------------------------------- commands
Ok(n) == [status |-> "ok", count |-> n]
Err == [status |-> "err", count |-> 0]

Snapshot(cfg) ==
    [index |-> index, trackerFile |-> trackerFile, config |-> cfg,
     modified |-> modified, reshaped |-> reshaped, lastOk |-> lastOk]

\* `ulm update`: run_update calls run_indexing.
StartUpdate ==
    /\ pc = "idle"
    /\ runs + edits < MaxEvents
    /\ runs' = runs + 1
    /\ kind' = "update"
    /\ check0' = FingerprintCheck(index, config)
    /\ prev' = Snapshot(config)
    /\ pc' = "scan"
    /\ UNCHANGED <<disk, loaded, metadata, all_paths, paths_to_process, unchanged,
                   outcome, entries, result, calls, lastOk, modified, reshaped, edits,
                   refiltered, queryVars, auxVars>>

\* `ulm setup`: run_setup up to its call of run_indexing.  The chosen
\* embedding model is saved with an empty index fingerprint; a failure of any
\* earlier step or of save_config ends the command.
StartSetup ==
    /\ pc = "idle"
    /\ runs + edits < MaxEvents
    /\ runs' = runs + 1
    /\ kind' = "setup"
    /\ check0' = FingerprintCheck(index, config)
    /\ \E m \in Models, ok \in BOOLEAN :
        IF ok
        THEN /\ config' = [exists |-> TRUE,
                           embedding_model |-> m,
                           embedding_dimension |-> NoDim,
                           last_embedding_model |-> NoModel]
             /\ pc' = "scan"
             /\ result' = result
        ELSE /\ config' = config
             /\ pc' = "done"
             /\ result' = Err
    /\ prev' = IF pc' = "scan" THEN Snapshot(config') ELSE NoPrev
    /\ UNCHANGED <<files, trackerFile, index, loaded, metadata, all_paths,
                   paths_to_process, unchanged, outcome, entries, calls,
                   lastOk, modified, reshaped, edits, refiltered, queryVars, auxVars>>

\* run_indexing up to the pipeline: scan, load the tracker, prune, filter.
ScanAndFilter ==
    /\ pc = "scan"
    /\ \E readOk \in BOOLEAN :
        /\ (trackerFile.exists \/ readOk)
        /\ LET paths == scan_directories(files)
               meta == remove_deleted(IndexMetadata_load(trackerFile, readOk), files)
               f == filter_changed(meta, files, paths)
           IN  /\ all_paths' = paths
               /\ IF Len(paths) = 0
                  THEN /\ result' = Ok(0)
                       /\ pc' = "done"
                       /\ UNCHANGED <<loaded, metadata, paths_to_process, unchanged>>
                  ELSE /\ loaded' = readOk
                       /\ metadata' = meta
                       /\ paths_to_process' = f.to_process
                       /\ unchanged' = f.unchanged
                       /\ IF Len(f.to_process) = 0
                          THEN result' = Ok(f.unchanged) /\ pc' = "done"
                          ELSE result' = result /\ pc' = "pipeline"
    /\ UNCHANGED <<disk, kind, outcome, entries, calls, prev, check0, ghost>>

\* The pipeline over paths_to_process: every path is extracted and embedded,
\* or dropped.
RunPipeline ==
    /\ pc = "pipeline"
    /\ \E oc \in [RangeOf(paths_to_process) -> PipelineOutcomes] :
        /\ outcome' = [p \in Paths |-> IF p \in RangeOf(paths_to_process) THEN oc[p] ELSE "none"]
        /\ entries' = generate_embeddings_pipelined(paths_to_process, files, outcome',
                                                    EmbeddingGenerator_model)
        /\ pc' = IF entries' = <<>> THEN "tracker" ELSE "fingerprint"
    /\ UNCHANGED <<disk, kind, loaded, metadata, all_paths, paths_to_process,
                   unchanged, result, calls, prev, check0, ghost>>

\* EmbeddingGenerator::new() or the pipeline itself returns Err.
PipelineFail ==
    /\ pc = "pipeline"
    /\ result' = Err
    /\ pc' = "done"
    /\ UNCHANGED <<disk, kind, loaded, metadata, all_paths, paths_to_process,
                   unchanged, outcome, entries, calls, prev, check0, ghost>>

\* entries.first() is Some: load the config, record the fingerprint, save.
WriteFingerprint ==
    /\ pc = "fingerprint"
    /\ \E ok \in BOOLEAN :
        IF ok
        THEN /\ config' = [update_index_metadata(load_config(config), entries[1].dim)
                             EXCEPT !.exists = TRUE]
             /\ calls' = Append(calls, "config_write_ok")
             /\ pc' = "tracker"
             /\ result' = result
        ELSE /\ config' = config
             /\ calls' = Append(calls, "config_write_err")
             /\ pc' = "done"
             /\ result' = Err
    /\ UNCHANGED <<files, trackerFile, index, kind, loaded, metadata, all_paths,
                   paths_to_process, unchanged, outcome, entries, prev, check0, ghost>>

\* Mutant: the result of metadata.save() is ignored.
SaveTracker_ignore_err ==
    /\ pc = "tracker"
    /\ metadata' = update_hashes(metadata, files, paths_to_process)
    /\ \E ok \in BOOLEAN :
        IF ok
        THEN /\ trackerFile' = [exists |-> TRUE, files |-> metadata']
             /\ calls' = Append(calls, "tracker_save_ok")
             /\ modified' = {} /\ reshaped' = FALSE
        ELSE /\ trackerFile' = trackerFile
             /\ calls' = Append(calls, "tracker_save_err")
             /\ UNCHANGED <<modified, reshaped>>
    /\ pc' = "ci_connect"
    /\ result' = result
    /\ UNCHANGED <<files, config, index, kind, loaded, all_paths, paths_to_process,
                   unchanged, outcome, entries, prev, check0, lastOk, runs, edits,
                   refiltered, queryVars, auxVars>>

\* metadata.update_hashes(&paths_to_process); metadata.save()?
SaveTracker ==
    /\ pc = "tracker"
    /\ metadata' = update_hashes(metadata, files, paths_to_process)
    /\ \E ok \in BOOLEAN :
        IF ok
        THEN /\ trackerFile' = [exists |-> TRUE, files |-> metadata']
             /\ calls' = Append(calls, "tracker_save_ok")
             /\ modified' = {} /\ reshaped' = FALSE
             /\ pc' = "ci_connect"
             /\ result' = result
        ELSE /\ trackerFile' = trackerFile
             /\ calls' = Append(calls, "tracker_save_err")
             /\ UNCHANGED <<modified, reshaped>>
             /\ pc' = "done"
             /\ result' = Err
    /\ UNCHANGED <<files, config, index, kind, loaded, all_paths, paths_to_process,
                   unchanged, outcome, entries, prev, check0, lastOk, runs, edits,
                   refiltered, queryVars, auxVars>>

\* ------------------------------------------------- db::create_index(entries)
CiFrame == UNCHANGED <<files, trackerFile, config, kind, loaded, metadata, all_paths,
                       paths_to_process, unchanged, outcome, entries, prev, check0, ghost>>

\* connect(&db_uri)
CiConnect ==
    /\ pc = "ci_connect"
    /\ calls' = Append(calls, "create_index")
    /\ \E ok \in BOOLEAN :
        IF ok THEN pc' = "ci_list" /\ result' = result
              ELSE pc' = "done" /\ result' = Err
    /\ index' = index
    /\ CiFrame

\* db.table_names(), then existing_tables.contains(TABLE_NAME)
CiTableNames ==
    /\ pc = "ci_list"
    /\ \E ok \in BOOLEAN :
        IF ok THEN pc' = (IF index.exists THEN "ci_drop" ELSE "ci_batch") /\ result' = result
              ELSE pc' = "done" /\ result' = Err
    /\ UNCHANGED <<index, calls>>
    /\ CiFrame

\* db.drop_table(TABLE_NAME)
CiDropTable ==
    /\ pc = "ci_drop"
    /\ \E ok \in BOOLEAN :
        IF ok THEN index' = NoIndex /\ pc' = "ci_batch" /\ result' = result
              ELSE index' = index /\ pc' = "done" /\ result' = Err
    /\ calls' = calls
    /\ CiFrame

\* create_record_batch(&entries)
CiRecordBatch ==
    /\ pc = "ci_batch"
    /\ \E ok \in BOOLEAN :
        IF ok THEN pc' = "ci_create" /\ result' = result
              ELSE pc' = "done" /\ result' = Err
    /\ UNCHANGED <<index, calls>>
    /\ CiFrame

\* db.create_table(TABLE_NAME, batches); run_indexing returns Ok(entry_count)
CiCreateTable ==
    /\ pc = "ci_create"
    /\ \E ok \in BOOLEAN :
        IF ok THEN /\ index' = [exists |-> TRUE, rows |-> RangeOf(entries)]
                   /\ result' = Ok(Len(entries))
              ELSE /\ index' = index
                   /\ result' = Err
    /\ pc' = "done"
    /\ calls' = calls
    /\ CiFrame

\* ------------------------------------------------------- process lifecycle
\* The command returns to the shell.
Finish ==
    /\ pc = "done"
    /\ pc' = "idle"
    /\ lastOk' = (result.status = "ok")
    /\ IF result.status = "ok"
       THEN modified' = {} /\ reshaped' = FALSE
       ELSE UNCHANGED <<modified, reshaped>>
    /\ RunReset
    /\ UNCHANGED <<disk, runs, edits, refiltered, queryVars, auxVars>>

\* The process is killed between two steps.
Crash ==
    /\ pc \notin {"idle", "done"}
    /\ pc' = "idle"
    /\ lastOk' = FALSE
    /\ RunReset
    /\ UNCHANGED <<disk, modified, reshaped, runs, edits, refiltered, queryVars, auxVars>>

\* Between two commands a manpage file is added, removed, overwritten with
\* different bytes or made unreadable.  A change counts against MaxEvents and
\* leaves room for a command that sees it.
NextContent(c) == (c % NumContents) + 1

EditTargets(s) ==
    IF s \in Contents THEN {NextContent(s), Absent, Unreadable} \ {s}
    ELSE {1, Absent, Unreadable} \ {s}

Edit ==
    /\ pc = "idle"
    /\ runs >= 1
    /\ runs + edits + 1 < MaxEvents
    /\ edits' = edits + 1
    /\ \E p \in Paths :
        \E s \in EditTargets(files[p]) :
            /\ files' = [files EXCEPT ![p] = s]
            /\ IF files[p] \in Contents /\ s \in Contents
               THEN modified' = modified \cup {p} /\ reshaped' = reshaped
               ELSE modified' = modified /\ reshaped' = TRUE
    /\ UNCHANGED <<trackerFile, config, index, pc, runVars, lastOk, runs, refiltered, queryVars, auxVars>>

\* Between two commands the user changes models.embedding_model in config.toml.
EditConfig ==
    /\ pc = "idle"
    /\ runs >= 1
    /\ runs + edits + 1 < MaxEvents
    /\ config.exists
    /\ edits' = edits + 1
    /\ \E m \in Models \ {config.embedding_model} :
        config' = [config EXCEPT !.embedding_model = m]
    /\ UNCHANGED <<files, trackerFile, index, pc, runVars, lastOk, modified,
                   reshaped, runs, refiltered, queryVars, auxVars>>

Init ==
    /\ files \in [Paths -> {Absent, Unreadable, 1}]
    /\ trackerFile = NoTracker
    /\ config = Config_default
    /\ index = NoIndex
    /\ pc = "idle"
    /\ kind = "none"
    /\ loaded = FALSE
    /\ metadata = IndexMetadata_default
    /\ all_paths = <<>>
    /\ paths_to_process = <<>>
    /\ unchanged = 0
    /\ outcome = NoOutcome
    /\ entries = <<>>
    /\ result = NoResult
    /\ calls = <<>>
    /\ prev = NoPrev
    /\ check0 = "none"
    /\ lastOk = FALSE
    /\ modified = {}
    /\ reshaped = FALSE
    /\ runs = 0
    /\ edits = 0
    /\ refiltered = NoFilter
    /\ QueryIdle
    /\ AuxIdle

Next ==
    \/ StartUpdate
    \/ StartSetup
    \/ ScanAndFilter
    \/ RunPipeline
    \/ PipelineFail
    \/ WriteFingerprint
    \/ SaveTracker
    \/ CiConnect
    \/ CiTableNames
    \/ CiDropTable
    \/ CiRecordBatch
    \/ CiCreateTable
    \/ Finish
    \/ Crash
    \/ Edit
    \/ EditConfig

Spec == Init /\ [][Next]_vars

\* ----------------------------------------- the change tracker on its own
\* filter_changed and update_hashes applied to any path list (duplicates and
\* missing paths included), any tracker state and any files; no file changes
\* between the calls.
PathLists == UNION {[1..n -> Paths] : n \in 0..MaxLen}

FilterInit ==
    /\ files \in [Paths -> FileStates]
    /\ metadata \in [Paths -> Hashes \cup {NoHash}]
    /\ trackerFile = [exists |-> TRUE, files |-> metadata]
    /\ all_paths \in PathLists
    /\ pc = "f_start"
    /\ config = Config_default
    /\ index = NoIndex
    /\ kind = "none"
    /\ loaded = TRUE
    /\ paths_to_process = <<>>
    /\ unchanged = 0
    /\ outcome = NoOutcome
    /\ entries = <<>>
    /\ result = NoResult
    /\ calls = <<>>
    /\ refiltered = NoFilter
    /\ QueryIdle
    /\ AuxIdle
    /\ prev = NoPrev
    /\ check0 = "none"
    /\ lastOk = FALSE
    /\ modified = {}
    /\ reshaped = FALSE
    /\ runs = 0
    /\ edits = 0

FilterFrame == UNCHANGED <<disk, kind, loaded, all_paths, outcome, entries, result,
                           calls, prev, check0, lastOk, modified, reshaped, runs, edits,
                           queryVars, auxVars>>

\* (todo, unchanged) = metadata.filter_changed(P)
FilterFirst ==
    /\ pc = "f_start"
    /\ LET f == filter_changed(metadata, files, all_paths)
       IN  paths_to_process' = f.to_process /\ unchanged' = f.unchanged
    /\ pc' = "f_filtered"
    /\ UNCHANGED <<metadata, refiltered, queryVars, auxVars>>
    /\ FilterFrame

\* metadata.update_hashes(&todo)
UpdateHashes ==
    /\ pc = "f_filtered"
    /\ metadata' = update_hashes(metadata, files, paths_to_process)
    /\ pc' = "f_updated"
    /\ UNCHANGED <<paths_to_process, unchanged, refiltered, queryVars, auxVars>>
    /\ FilterFrame

\* (todo', _) = metadata.filter_changed(P)
FilterSecond ==
    /\ pc = "f_updated"
    /\ refiltered' = filter_changed(metadata, files, all_paths)
    /\ pc' = "f_refiltered"
    /\ UNCHANGED <<metadata, paths_to_process, unchanged>>
    /\ FilterFrame

FilterNext == FilterFirst \/ UpdateHashes \/ FilterSecond

SpecFilter == FilterInit /\ [][FilterNext]_vars

\* ------------------------------------------------- the selector on its own
\* The indexing run variables when no indexing command is running.
RunIdle ==
    /\ kind = "none"
    /\ loaded = FALSE
    /\ metadata = IndexMetadata_default
    /\ all_paths = <<>>
    /\ paths_to_process = <<>>
    /\ unchanged = 0
    /\ outcome = NoOutcome
    /\ entries = <<>>
    /\ result = NoResult
    /\ calls = <<>>
    /\ prev = NoPrev
    /\ check0 = "none"
    /\ lastOk = FALSE
    /\ modified = {}
    /\ reshaped = FALSE
    /\ runs = 0
    /\ edits = 0
    /\ refiltered = NoFilter

\* App::new over any suggestion list (the empty one included), as the tests
\* of tui/mod.rs and tui/input.rs build it.
SelectorInit ==
    /\ \E s \in SuggestionLists : app = App_new(s)
    /\ action = NoAction
    /\ event = NoEvent
    /\ app0 = app
    /\ pc = "tui"
    /\ llm_model = "llama3.2:3b"
    /\ suggestions = app.suggestions
    /\ qcalls = <<>>
    /\ qerr = NoError
    /\ exit = NoExit
    /\ AuxIdle
    /\ files = [p \in Paths |-> Absent]
    /\ trackerFile = NoTracker
    /\ config = Config_default
    /\ index = NoIndex
    /\ RunIdle

SelectorFrame == UNCHANGED <<disk, runVars, lastOk, modified, reshaped, runs, edits,
                             refiltered, llm_model, suggestions, qcalls, qerr, exit,
                             auxVars>>

\* run_event_loop: one iteration in which an event was read; the loop returns
\* when handle_event returns an action.
HandleEvent ==
    /\ pc = "tui"
    /\ \E ev \in Events :
        LET h == handle_event(app, ev)
        IN  /\ event' = ev
            /\ app0' = app
            /\ app' = h.app
            /\ action' = h.action
            /\ pc' = IF h.action # NoAction THEN "act" ELSE "tui"
    /\ SelectorFrame

\* App::set_status
SetStatus ==
    /\ pc = "tui"
    /\ app.status_message = NoStatus
    /\ app' = set_status(app, "Copied!")
    /\ app0' = app'
    /\ event' = NoEvent
    /\ UNCHANGED <<pc, action>>
    /\ SelectorFrame

SelectorNext == HandleEvent \/ SetStatus

SpecSelector == SelectorInit /\ [][SelectorNext]_vars

\* ------------------------------------------------ run_tui and the terminal
\* run_tui(suggestions) as process_query_flow calls it, with the terminal in
\* cooked mode on the main screen.
TermInit ==
    /\ \E s \in SuggestionLists : Len(s) > 1 /\ suggestions = s
    /\ app = App_new(<<>>)
    /\ action = NoAction
    /\ event = NoEvent
    /\ app0 = App_new(<<>>)
    /\ pc = "t_raw"
    /\ llm_model = "llama3.2:3b"
    /\ qcalls = <<>>
    /\ qerr = NoError
    /\ exit = NoExit
    /\ TermIdle
    /\ ParseIdle
    /\ PromptIdle
    /\ SetupIdle
    /\ PipeIdle
    /\ RetryIdle
    /\ files = [p \in Paths |-> Absent]
    /\ trackerFile = NoTracker
    /\ config = Config_default
    /\ index = NoIndex
    /\ RunIdle

TermFrame == UNCHANGED <<disk, runVars, lastOk, modified, reshaped, runs, edits,
                         refiltered, llm_model, suggestions, qcalls, qerr, exit,
                         parseVars, promptVars, setupVars, pipeVars, retryVars>>

\* `?` in run_tui: the function returns the Err at once.
TuiReturnErr ==
    /\ tui_result' = "err"
    /\ pc' = "returned"

\* enable_raw_mode()?
EnableRawMode ==
    /\ pc = "t_raw"
    /\ \E ok \in BOOLEAN :
        IF ok THEN raw' = TRUE /\ pc' = "t_alt" /\ UNCHANGED tui_result
              ELSE raw' = raw /\ TuiReturnErr
    /\ UNCHANGED <<alt, selVars>>
    /\ TermFrame

\* execute!(stdout, EnterAlternateScreen)?
EnterAlternateScreen ==
    /\ pc = "t_alt"
    /\ \E ok \in BOOLEAN :
        IF ok THEN alt' = TRUE /\ pc' = "t_terminal" /\ UNCHANGED tui_result
              ELSE alt' = alt /\ TuiReturnErr
    /\ UNCHANGED <<raw, selVars>>
    /\ TermFrame

\* Terminal::new(backend)?; App::new(suggestions)
NewTerminal ==
    /\ pc = "t_terminal"
    /\ \E ok \in BOOLEAN :
        IF ok THEN /\ app' = App_new(suggestions)
                   /\ app0' = App_new(suggestions)
                   /\ pc' = "tui"
                   /\ UNCHANGED tui_result
              ELSE /\ UNCHANGED <<app, app0>>
                   /\ TuiReturnErr
    /\ UNCHANGED <<raw, alt, action, event>>
    /\ TermFrame

\* run_event_loop: draw, poll or read returns Err; the loop returns it.
EventLoopErr ==
    /\ pc = "tui"
    /\ pc' = "loop_err"
    /\ UNCHANGED <<termVars, selVars>>
    /\ TermFrame

\* disable_raw_mode()? after the loop returned its result
DisableRawMode ==
    /\ pc \in {"act", "loop_err"}
    /\ \E ok \in BOOLEAN :
        IF ok THEN /\ raw' = FALSE
                   /\ tui_result' = IF pc = "act" THEN "loop_ok" ELSE "loop_err"
                   /\ pc' = "t_leave"
              ELSE raw' = raw /\ TuiReturnErr
    /\ UNCHANGED <<alt, selVars>>
    /\ TermFrame

\* execute!(terminal.backend_mut(), LeaveAlternateScreen)?
LeaveAlternateScreen ==
    /\ pc = "t_leave"
    /\ \E ok \in BOOLEAN :
        IF ok THEN alt' = FALSE /\ pc' = "t_cursor" /\ UNCHANGED tui_result
              ELSE alt' = alt /\ TuiReturnErr
    /\ UNCHANGED <<raw, selVars>>
    /\ TermFrame

\* terminal.show_cursor()?; result
ShowCursor ==
    /\ pc = "t_cursor"
    /\ \E ok \in BOOLEAN :
        IF ok THEN /\ tui_result' = IF tui_result = "loop_ok" THEN "ok" ELSE "err"
                   /\ pc' = "returned"
              ELSE TuiReturnErr
    /\ UNCHANGED <<raw, alt, selVars>>
    /\ TermFrame

\* A panic while the selector is shown; the hook set in main runs:
\* if is_raw_mode_enabled().unwrap_or(false) { let _ = disable_raw_mode(); }
PanicHook ==
    /\ pc = "tui"
    /\ \E enabled \in {raw, FALSE}, ok \in BOOLEAN :
        raw' = IF enabled /\ ok THEN FALSE ELSE raw
    /\ tui_result' = "panic"
    /\ pc' = "panicked"
    /\ UNCHANGED <<alt, selVars>>
    /\ TermFrame

TermNext ==
    \/ EnableRawMode
    \/ EnterAlternateScreen
    \/ NewTerminal
    \/ HandleEvent
    \/ EventLoopErr
    \/ DisableRawMode
    \/ LeaveAlternateScreen
    \/ ShowCursor
    \/ PanicHook

SpecTerminal == TermInit /\ [][TermNext]_vars

\* ------------------------------------------- llm::response::parse_suggestions
\* Every variable outside the pipeline stages below, but pc.
baseVars == <<disk, runVars, lastOk, modified, reshaped, runs, edits, refiltered,
              queryVars>>

\* No command is running and nothing is on disk.
BaseIdle ==
    /\ files = [p \in Paths |-> Absent]
    /\ trackerFile = NoTracker
    /\ config = Config_default
    /\ index = NoIndex
    /\ RunIdle
    /\ QueryIdle

\* A command string is a sequence of characters, blank or not.
Chars == {" ", "x"}
RawCommands == UNION {[1..n -> Chars] : n \in 0..MaxCmdLen}

\* str::trim
RECURSIVE trim_start(_)
trim_start(str) ==
    IF str # <<>> /\ Head(str) = " " THEN trim_start(Tail(str)) ELSE str
RECURSIVE trim_end(_)
trim_end(str) ==
    IF str # <<>> /\ str[Len(str)] = " "
    THEN trim_end(SubSeq(str, 1, Len(str) - 1))
    ELSE str
trim(str) == trim_end(trim_start(str))

\* The risk_level member of a suggestion object: missing, one of the three
\* variant names, or another string.
RiskLevels == {"safe", "moderate", "destructive"}
NoRisk == "absent"
RawRisks == RiskLevels \cup {NoRisk, "high"}

\* #[serde(default)] risk_level: RiskLevel, with rename_all = "lowercase":
\* a missing member takes RiskLevel::default(), a variant name is read, any
\* other string is an unknown-variant error.
deserialize_risk_level(r) ==
    IF r = NoRisk THEN [ok |-> TRUE, risk |-> "safe"]
    ELSE IF r \in RiskLevels THEN [ok |-> TRUE, risk |-> r]
    ELSE [ok |-> FALSE, risk |-> "none"]

\* The documents generate can return: not JSON at all, or an object whose
\* suggestions carry command, title, explanation and maybe risk_level.
RawSuggestions == [command : RawCommands, risk_level : RawRisks]
Document(suggs) == [json |-> TRUE, suggestions |-> suggs]
Responses ==
    {NotJson} \cup {Document(d) : d \in UNION {[1..n -> RawSuggestions] : n \in 0..MaxDoc}}

\* serde_json::from_str::<SuggestionsResponse>
from_str(doc) ==
    LET raw_suggs == doc.suggestions
    IN  IF ~doc.json THEN [ok |-> FALSE, suggestions |-> <<>>]
        ELSE IF \E i \in 1..Len(raw_suggs) :
                    ~deserialize_risk_level(raw_suggs[i].risk_level).ok
             THEN [ok |-> FALSE, suggestions |-> <<>>]
        ELSE [ok |-> TRUE,
              suggestions |-> [i \in 1..Len(raw_suggs) |->
                  [command |-> raw_suggs[i].command,
                   risk_level |-> deserialize_risk_level(raw_suggs[i].risk_level).risk]]]

ParseResult(st, suggs) == [status |-> st, suggestions |-> suggs]

\* parse_suggestions(response)
parse_suggestions(doc) ==
    LET p == from_str(doc)
    IN  IF ~p.ok THEN ParseResult("json_err", <<>>)
        ELSE IF \E i \in 1..Len(p.suggestions) : trim(p.suggestions[i].command) = <<>>
             THEN ParseResult("empty_command", <<>>)
        ELSE ParseResult("ok", p.suggestions)

ParseInit ==
    /\ response \in Responses
    /\ parsed = NoParse
    /\ pc = "p_start"
    /\ TermIdle
    /\ PromptIdle
    /\ SetupIdle
    /\ PipeIdle
    /\ RetryIdle
    /\ BaseIdle

ParseSuggestions ==
    /\ pc = "p_start"
    /\ parsed' = parse_suggestions(response)
    /\ pc' = "p_done"
    /\ UNCHANGED <<response, baseVars, termVars, promptVars, setupVars, pipeVars, retryVars>>

ParseNext == ParseSuggestions

SpecParse == ParseInit /\ [][ParseNext]_vars

\* ------------------------------------------------- llm::prompt::build_prompt
\* Strings are modelled by their length in bytes; a page is made of
\* characters that are all `width` bytes wide.
MAX_PROMPT_LENGTH == 48000
\* SYSTEM_INSTRUCTIONS.len()
SystemInstructionsLen == 979
\* The literal text of the two format strings around their four arguments.
FrameLen == 98
TruncatedFrameLen == 130

QueryLens == {0, 16, 1000, 46000, 47000, 50000}
CharWidths == {1, 2, 3, 4}
PageLens == {0, 12, 1200, 48000, 120000}
ContextLens == {0, 60, 4800}

\* usize::saturating_sub
saturating_sub(a, b) == IF a >= b THEN a - b ELSE 0

\* truncate_at_boundary(text, max_len).len() for a text of len bytes whose
\* characters are w bytes wide: the end moves back to a character boundary.
truncate_at_boundary(len, w, max_len) ==
    IF len <= max_len THEN len ELSE max_len - (max_len % w)

\* build_prompt(query, manpage_content, context).len()
build_prompt(q, page, w, ctx) ==
    LET full == SystemInstructionsLen + FrameLen + ctx + page + q
    IN  IF full > MAX_PROMPT_LENGTH
        THEN LET overhead == full - page
                 max_content == saturating_sub(saturating_sub(MAX_PROMPT_LENGTH, overhead), 100)
                 truncated_content == truncate_at_boundary(page, w, max_content)
             IN  SystemInstructionsLen + TruncatedFrameLen + ctx + truncated_content + q
        ELSE full

PromptInit ==
    /\ \E q \in QueryLens, w \in CharWidths, page \in PageLens, ctx \in ContextLens :
           prompt_in = PromptInput(q, page, w, ctx)
    /\ prompt_len = NoPromptLen
    /\ pc = "b_start"
    /\ TermIdle
    /\ ParseIdle
    /\ SetupIdle
    /\ PipeIdle
    /\ RetryIdle
    /\ BaseIdle

BuildPrompt ==
    /\ pc = "b_start"
    /\ prompt_len' = build_prompt(prompt_in.query, prompt_in.page, prompt_in.width,
                                  prompt_in.context)
    /\ pc' = "b_done"
    /\ UNCHANGED <<prompt_in, baseVars, termVars, parseVars, setupVars, pipeVars, retryVars>>

PromptNext == BuildPrompt

SpecPrompt == PromptInit /\ [][PromptNext]_vars

\* ----------------------------------------- run_setup: model check and pull
\* The names the user can choose: embedding models are named without a tag,
\* LLM models with one.
EmbeddingChoices == {ModelName("nomic-embed-text", NoTag), ModelName("mxbai-embed-large", NoTag)}
LlmChoices == {ModelName("llama3.2", "3b"), ModelName("mistral", "7b")}

\* The names /api/tags can list: always base:tag.
ServerNames ==
    {ModelName("nomic-embed-text", "latest"), ModelName("nomic-embed-text", "v1.5"),
     ModelName("mxbai-embed-large", "latest"),
     ModelName("llama3.2", "3b"), ModelName("llama3.2", "1b"), ModelName("mistral", "7b")}

\* The model a name stands for on the server: a name without a tag is the
\* name with tag latest.
Resolve(m) == IF m.tag = NoTag THEN ModelName(m.base, "latest") ELSE m

\* run_setup: installed_names.iter().any(|name| *name == model ||
\* name.starts_with(&format!("{model}:"))).  A listed name starts with
\* "model:" when model has no tag and is the listed name's base.
is_installed(names, m) ==
    \E name \in names :
        \/ name = m
        \/ m.tag = NoTag /\ name.tag # NoTag /\ name.base = m.base

PullCall(m, ok) == [model |-> m, ok |-> ok]

SetupInit ==
    /\ server \in SUBSET ServerNames
    /\ \E e \in EmbeddingChoices, l \in LlmChoices : chosen = [embedding |-> e, llm |-> l]
    /\ installed_names = {}
    /\ pulls = <<>>
    /\ setup_result = "none"
    /\ pc = "s_list"
    /\ TermIdle
    /\ ParseIdle
    /\ PromptIdle
    /\ PipeIdle
    /\ RetryIdle
    /\ BaseIdle

SetupFrame == UNCHANGED <<baseVars, termVars, parseVars, promptVars, pipeVars, retryVars>>

\* `?` in run_setup
SetupFail ==
    /\ setup_result' = "err"
    /\ pc' = "s_failed"

\* client.list_models()
ListModels ==
    /\ pc = "s_list"
    /\ \E ok \in BOOLEAN :
        IF ok THEN /\ installed_names' = server
                   /\ pc' = "s_embedding"
                   /\ UNCHANGED setup_result
              ELSE /\ UNCHANGED installed_names
                   /\ SetupFail
    /\ UNCHANGED <<server, chosen, pulls>>
    /\ SetupFrame

\* pull_model_with_progress(client, model)?, then the next step of run_setup
PullOrSkip(m, next) ==
    IF is_installed(installed_names, m)
    THEN /\ pc' = next
         /\ UNCHANGED <<server, pulls, setup_result>>
    ELSE \E ok \in BOOLEAN :
            /\ pulls' = Append(pulls, PullCall(m, ok))
            /\ IF ok THEN /\ server' = server \cup {Resolve(m)}
                          /\ pc' = next
                          /\ UNCHANGED setup_result
                     ELSE /\ UNCHANGED server
                          /\ SetupFail

\* Check and pull embedding model
PullEmbeddingModel ==
    /\ pc = "s_embedding"
    /\ PullOrSkip(chosen.embedding, "s_llm")
    /\ UNCHANGED <<chosen, installed_names>>
    /\ SetupFrame

\* Check and pull LLM model
PullLlmModel ==
    /\ pc = "s_llm"
    /\ PullOrSkip(chosen.llm, "s_save")
    /\ UNCHANGED <<chosen, installed_names>>
    /\ SetupFrame

\* save_config(&config)?, then run_indexing() starts
SaveConfigAndIndex ==
    /\ pc = "s_save"
    /\ \E ok \in BOOLEAN :
        IF ok THEN pc' = "s_indexing" /\ setup_result' = "indexing"
              ELSE SetupFail
    /\ UNCHANGED <<server, chosen, installed_names, pulls>>
    /\ SetupFrame

SetupNext ==
    \/ ListModels
    \/ PullEmbeddingModel
    \/ PullLlmModel
    \/ SaveConfigAndIndex

SpecSetup == SetupInit /\ [][SetupNext]_vars

\* ------------------------------------- embed stage: generate_with_retry
\* One embedder working through NumDescriptors descriptors.
max_attempts == 3

\* Mutant: the first delay is one second.
retry_delay_from_zero(k) == 2 ^ (k - 1)

\* Duration::from_secs(2_u64.pow(attempt))
retry_delay(k) == 2 ^ k

EmbedCall(i, k, ok) == [item |-> i, attempt |-> k, ok |-> ok]
Sleep(i, secs) == [item |-> i, secs |-> secs]

EmbedInit ==
    /\ item = 1
    /\ attempt = 1
    /\ attempts = <<>>
    /\ sleeps = <<>>
    /\ PipeIdle
    /\ pc = "e_embed"
    /\ TermIdle
    /\ ParseIdle
    /\ PromptIdle
    /\ SetupIdle
    /\ BaseIdle

EmbedFrame == UNCHANGED <<baseVars, termVars, parseVars, promptVars, setupVars,
                          undrawn, extracting, blocked, chan, embedding, extract_errors>>

\* generate_with_retry: one turn of `for attempt in 1..=max_attempts`
AttemptEmbed ==
    /\ pc = "e_embed"
    /\ \E ok \in BOOLEAN :
        /\ attempts' = Append(attempts, EmbedCall(item, attempt, ok))
        /\ IF ok
           THEN pc' = "e_ok" /\ UNCHANGED <<attempt, sleeps>>
           ELSE IF attempt < max_attempts
                THEN /\ sleeps' = Append(sleeps, Sleep(item, retry_delay(attempt)))
                     /\ attempt' = attempt + 1
                     /\ pc' = pc
                ELSE pc' = "e_err" /\ UNCHANGED <<attempt, sleeps>>
    /\ UNCHANGED <<item, sink, embed_errors>>
    /\ EmbedFrame

\* The embedder after generate_with_retry returned: the entry goes to the
\* sink, or the descriptor is dropped and counted; then the next descriptor.
EmbedderNext ==
    /\ pc \in {"e_ok", "e_err"}
    /\ IF pc = "e_ok" THEN sink' = sink + 1 /\ UNCHANGED embed_errors
                      ELSE embed_errors' = embed_errors + 1 /\ UNCHANGED sink
    /\ item' = item + 1
    /\ attempt' = 1
    /\ pc' = IF item' > NumDescriptors THEN "e_done" ELSE "e_embed"
    /\ UNCHANGED <<attempts, sleeps>>
    /\ EmbedFrame

EmbedNext == AttemptEmbed \/ EmbedderNext

SpecEmbed == EmbedInit /\ [][EmbedNext]_vars

\* ------------------------------ embedding pipeline: the two stages (C6)
\* Extractor workers draw paths, extract and send descriptors into a bounded
\* channel; embedder workers receive descriptors and embed them.  Paths and
\* descriptors are counted: workers of a stage are interchangeable and the
\* order of the channel matters to none of them.
N_extract == 4
N_embed == 4
CHANNEL_CAPACITY == 8

PipeInit ==
    /\ \E n \in 0..NumPipelinePaths :
        /\ paths_to_process = [i \in 1..n |-> i]
        /\ undrawn = n
    /\ extracting = 0
    /\ blocked = 0
    /\ chan = 0
    /\ embedding = 0
    /\ sink = 0
    /\ extract_errors = 0
    /\ embed_errors = 0
    /\ pc = "pl_run"
    /\ files = [p \in Paths |-> Absent]
    /\ trackerFile = NoTracker
    /\ config = Config_default
    /\ index = NoIndex
    /\ kind = "none"
    /\ loaded = FALSE
    /\ metadata = IndexMetadata_default
    /\ all_paths = <<>>
    /\ unchanged = 0
    /\ outcome = NoOutcome
    /\ entries = <<>>
    /\ result = NoResult
    /\ calls = <<>>
    /\ prev = NoPrev
    /\ check0 = "none"
    /\ lastOk = FALSE
    /\ modified = {}
    /\ reshaped = FALSE
    /\ runs = 0
    /\ edits = 0
    /\ refiltered = NoFilter
    /\ QueryIdle
    /\ TermIdle
    /\ ParseIdle
    /\ PromptIdle
    /\ SetupIdle
    /\ RetryIdle

PipeFrame == UNCHANGED <<baseVars, termVars, parseVars, promptVars, setupVars, retryVars>>

\* An idle extractor draws the next path.
DrawPath ==
    /\ pc = "pl_run"
    /\ undrawn > 0
    /\ extracting + blocked < N_extract
    /\ undrawn' = undrawn - 1
    /\ extracting' = extracting + 1
    /\ UNCHANGED <<pc, blocked, chan, embedding, sink, extract_errors, embed_errors>>
    /\ PipeFrame

\* Extraction fails: the path is logged and dropped.
ExtractFail ==
    /\ pc = "pl_run"
    /\ extracting > 0
    /\ extracting' = extracting - 1
    /\ extract_errors' = extract_errors + 1
    /\ UNCHANGED <<pc, undrawn, blocked, chan, embedding, sink, embed_errors>>
    /\ PipeFrame

\* Mutant: a descriptor is pushed whether or not the channel has room.
ExtractOk_no_backpressure ==
    /\ pc = "pl_run"
    /\ extracting > 0
    /\ extracting' = extracting - 1
    /\ chan' = chan + 1
    /\ UNCHANGED <<pc, undrawn, blocked, embedding, sink, extract_errors, embed_errors>>
    /\ PipeFrame

\* Extraction succeeds and the extractor sends the descriptor: at once when
\* the channel has room, else it waits.
ExtractOk ==
    /\ pc = "pl_run"
    /\ extracting > 0
    /\ extracting' = extracting - 1
    /\ IF chan < CHANNEL_CAPACITY
       THEN chan' = chan + 1 /\ UNCHANGED blocked
       ELSE blocked' = blocked + 1 /\ UNCHANGED chan
    /\ UNCHANGED <<pc, undrawn, embedding, sink, extract_errors, embed_errors>>
    /\ PipeFrame

\* A waiting extractor's send completes once the channel has room.
SendBlocked ==
    /\ pc = "pl_run"
    /\ blocked > 0
    /\ chan < CHANNEL_CAPACITY
    /\ blocked' = blocked - 1
    /\ chan' = chan + 1
    /\ UNCHANGED <<pc, undrawn, extracting, embedding, sink, extract_errors, embed_errors>>
    /\ PipeFrame

\* Mutant: the embedder reads the descriptor and leaves it in the channel.
Receive_peek ==
    /\ pc = "pl_run"
    /\ chan > 0
    /\ embedding < N_embed
    /\ embedding' = embedding + 1
    /\ UNCHANGED <<pc, chan, undrawn, extracting, blocked, sink, extract_errors, embed_errors>>
    /\ PipeFrame

\* Mutant: embedders wait for a full channel before they receive.
Receive_when_full ==
    /\ pc = "pl_run"
    /\ chan = CHANNEL_CAPACITY
    /\ embedding < N_embed
    /\ chan' = chan - 1
    /\ embedding' = embedding + 1
    /\ UNCHANGED <<pc, undrawn, extracting, blocked, sink, extract_errors, embed_errors>>
    /\ PipeFrame

\* An idle embedder receives a descriptor.
Receive ==
    /\ pc = "pl_run"
    /\ chan > 0
    /\ embedding < N_embed
    /\ chan' = chan - 1
    /\ embedding' = embedding + 1
    /\ UNCHANGED <<pc, undrawn, extracting, blocked, sink, extract_errors, embed_errors>>
    /\ PipeFrame

\* generate_with_retry returned Ok: the entry flows to the sink.
EmbedOk ==
    /\ pc = "pl_run"
    /\ embedding > 0
    /\ embedding' = embedding - 1
    /\ sink' = sink + 1
    /\ UNCHANGED <<pc, undrawn, extracting, blocked, chan, extract_errors, embed_errors>>
    /\ PipeFrame

\* generate_with_retry returned Err: the descriptor is dropped.
EmbedFail ==
    /\ pc = "pl_run"
    /\ embedding > 0
    /\ embedding' = embedding - 1
    /\ embed_errors' = embed_errors + 1
    /\ UNCHANGED <<pc, undrawn, extracting, blocked, chan, sink, extract_errors>>
    /\ PipeFrame

\* All paths are drawn, the channel is drained and every worker is idle:
\* the pipeline returns its entries.
PipelineDone ==
    /\ pc = "pl_run"
    /\ undrawn = 0 /\ extracting = 0 /\ blocked = 0 /\ chan = 0 /\ embedding = 0
    /\ pc' = "pl_done"
    /\ UNCHANGED pipeVars
    /\ PipeFrame

PipeNext ==
    \/ DrawPath
    \/ ExtractFail
    \/ ExtractOk
    \/ SendBlocked
    \/ Receive
    \/ EmbedOk
    \/ EmbedFail
    \/ PipelineDone

SpecPipeline == PipeInit /\ [][PipeNext]_vars

\* The scheduler is fair: a step that stays possible is taken.
SpecPipelineFair == SpecPipeline /\ WF_vars(PipeNext)

\* ------------------------------------------------ query flow: `ulm <query>`
LlmModels == {"llama3.2:3b", "mistral:7b"}
DEFAULT_MODEL == "llama3"

\* One call of the query flow: the operation, its string argument (model or
\* command), the json flag of generate, and a number (vector length of embed
\* and search, wait status of execute).
QCall(op, arg, json, n) == [op |-> op, arg |-> arg, json |-> json, n |-> n]
QOps(log) == {log[i].op : i \in 1..Len(log)}

\* ExitStatus::code(): Some(0..255), or None when a signal ended the child.
NoCode == -1
WaitStatuses == {0, 1, 2, 255, NoCode}

\* Mutant: a child ended by a signal counts as success.
exit_code_signal_ok(status) == IF status = NoCode THEN 0 ELSE status

\* execute_command: status.code().unwrap_or(1)
exit_code(status) == IF status = NoCode THEN 1 ELSE status

\* exit_code.try_into().unwrap_or(1) for u8
try_into_u8(c) == IF c >= 0 /\ c <= 255 THEN c ELSE 1

\* Mutant: a single suggestion opens the selector as well.
flow_branch_always_tui(suggs) ==
    IF Len(suggs) = 0 THEN "none" ELSE "tui"

\* process_query_flow: what happens with the suggestions of process_query.
flow_branch(suggs) ==
    IF Len(suggs) = 0 THEN "none"
    ELSE IF Len(suggs) = 1 THEN "auto"
    ELSE "tui"

\* The config files a query can find: none, one saved by setup before any
\* index was built, or one with a recorded fingerprint.
QueryConfigs ==
    {Config_default}
    \cup {[exists |-> TRUE, embedding_model |-> m,
           embedding_dimension |-> NoDim, last_embedding_model |-> NoModel] :
          m \in Models}
    \cup {[exists |-> TRUE, embedding_model |-> m,
           embedding_dimension |-> Dim(d), last_embedding_model |-> l] :
          m \in Models, d \in Models, l \in Models}

\* The tables a query can find: none, an empty one, or one built by
\* run_indexing over the manpages.
QueryIndexes ==
    {NoIndex, [exists |-> TRUE, rows |-> {}],
     [exists |-> TRUE,
      rows |-> {ManpageEntry(p, [q \in Paths |-> 1], EmbeddingGenerator_model) : p \in Paths}]}

QueryInit ==
    /\ index \in QueryIndexes
    /\ config \in QueryConfigs
    /\ llm_model \in LlmModels
    /\ files = [p \in Paths |-> 1]
    /\ trackerFile = NoTracker
    /\ pc = "q_exists"
    /\ app = App_new(<<>>)
    /\ action = NoAction
    /\ event = NoEvent
    /\ app0 = App_new(<<>>)
    /\ suggestions = <<>>
    /\ qcalls = <<>>
    /\ qerr = NoError
    /\ exit = NoExit
    /\ AuxIdle
    /\ RunIdle

QueryFrame == UNCHANGED <<disk, runVars, lastOk, modified, reshaped, runs, edits,
                          refiltered, llm_model, auxVars>>

\* An Err that `?` carries up to main, which exits with ExitCode::FAILURE.
Fail(k, old, new) ==
    /\ qerr' = QueryError(k, old, new)
    /\ exit' = 1
    /\ pc' = "exited"

\* search_tools: db::index_exists()
QIndexExists ==
    /\ pc = "q_exists"
    /\ \E ok \in BOOLEAN :
        IF ~ok THEN Fail("IndexCheckFailed", "none", "none")
        ELSE IF ~index.exists THEN Fail("IndexMissing", "none", "none")
        ELSE pc' = "q_config" /\ UNCHANGED <<qerr, exit>>
    /\ UNCHANGED <<selVars, suggestions, qcalls>>
    /\ QueryFrame

\* search_tools: load_config, needs_index_rebuild, last_embedding_model.is_none
QCheckConfig ==
    /\ pc = "q_config"
    /\ \E ok \in BOOLEAN :
        LET cfg == load_config(config)
        IN  IF ~ok THEN Fail("ConfigLoadFailed", "none", "none")
            ELSE IF needs_index_rebuild(cfg)
                 THEN Fail("IndexStale", cfg.last_embedding_model, cfg.embedding_model)
            ELSE IF cfg.last_embedding_model = NoModel
                 THEN Fail("IndexFingerprintUnknown", "none", "none")
            ELSE pc' = "q_embed" /\ UNCHANGED <<qerr, exit>>
    /\ UNCHANGED <<selVars, suggestions, qcalls>>
    /\ QueryFrame

\* search_tools: client.generate_embedding(embedding_model, query)
QEmbed ==
    /\ pc = "q_embed"
    /\ LET model == load_config(config).embedding_model
       IN  qcalls' = Append(qcalls, QCall("embed", model, FALSE, Dim(model)))
    /\ \E ok \in BOOLEAN :
        IF ok THEN pc' = "q_search" /\ UNCHANGED <<qerr, exit>>
              ELSE Fail("EmbedFailed", "none", "none")
    /\ UNCHANGED <<selVars, suggestions>>
    /\ QueryFrame

\* search_tools: db::search(&embedding, limit); process_query: matches.is_empty()
QSearch ==
    /\ pc = "q_search"
    /\ qcalls' = Append(qcalls, QCall("search", "none", FALSE, qcalls[Len(qcalls)].n))
    /\ \E ok \in BOOLEAN :
        IF ~ok THEN Fail("SearchFailed", "none", "none")
        ELSE IF index.rows = {} THEN Fail("NoMatches", "none", "none")
        ELSE pc' = "q_page" /\ UNCHANGED <<qerr, exit>>
    /\ UNCHANGED <<selVars, suggestions>>
    /\ QueryFrame

\* process_query: load_manpage_content(top_tool)
QLoadPage ==
    /\ pc = "q_page"
    /\ qcalls' = Append(qcalls, QCall("load_page", "none", FALSE, 0))
    /\ \E ok \in BOOLEAN :
        IF ok THEN pc' = "q_context" /\ UNCHANGED <<qerr, exit>>
              ELSE Fail("PageLoadFailed", "none", "none")
    /\ UNCHANGED <<selVars, suggestions>>
    /\ QueryFrame

\* process_query: scan_directory_context()
QScanContext ==
    /\ pc = "q_context"
    /\ qcalls' = Append(qcalls, QCall("scan_context", "none", FALSE, 0))
    /\ \E ok \in BOOLEAN :
        IF ok THEN pc' = "q_prompt" /\ UNCHANGED <<qerr, exit>>
              ELSE Fail("ContextScanFailed", "none", "none")
    /\ UNCHANGED <<selVars, suggestions>>
    /\ QueryFrame

\* process_query: build_prompt(query, &manpage_content, &context)
QBuildPrompt ==
    /\ pc = "q_prompt"
    /\ qcalls' = Append(qcalls, QCall("build_prompt", "none", FALSE, 0))
    /\ pc' = "q_generate"
    /\ UNCHANGED <<selVars, suggestions, qerr, exit>>
    /\ QueryFrame

\* process_query: client.generate(DEFAULT_MODEL, &prompt, true)
QGenerate ==
    /\ pc = "q_generate"
    /\ qcalls' = Append(qcalls, QCall("generate", DEFAULT_MODEL, TRUE, 0))
    /\ \E ok \in BOOLEAN :
        IF ok THEN pc' = "q_parse" /\ UNCHANGED <<qerr, exit>>
              ELSE Fail("GenerateFailed", "none", "none")
    /\ UNCHANGED <<selVars, suggestions>>
    /\ QueryFrame

\* process_query: parse_suggestions(&response)
QParse ==
    /\ pc = "q_parse"
    /\ \E ok \in BOOLEAN :
        IF ok THEN /\ \E s \in SuggestionLists : suggestions' = s
                   /\ pc' = "flow"
                   /\ UNCHANGED <<qerr, exit>>
              ELSE /\ suggestions' = suggestions
                   /\ Fail("ResponseInvalid", "none", "none")
    /\ UNCHANGED <<selVars, qcalls>>
    /\ QueryFrame

\* execute_command(cmd) and Ok(exit_code.try_into().unwrap_or(1)): the shell
\* is spawned and waited for, or spawn or wait fails.
Execute(log, cmd) ==
    \E ran \in BOOLEAN, status \in WaitStatuses :
        IF ran
        THEN /\ qcalls' = Append(log, QCall("execute", cmd, FALSE, status))
             /\ exit' = try_into_u8(exit_code(status))
             /\ qerr' = qerr
             /\ pc' = "exited"
        ELSE /\ qcalls' = Append(log, QCall("execute", cmd, FALSE, NoCode))
             /\ Fail("ExecuteFailed", "none", "none")

\* process_query_flow: suggestions.is_empty()
NoSuggestions ==
    /\ pc = "flow"
    /\ flow_branch(suggestions) = "none"
    /\ exit' = 0
    /\ pc' = "exited"
    /\ UNCHANGED <<selVars, suggestions, qcalls, qerr>>
    /\ QueryFrame

\* process_query_flow: suggestions.len() == 1
AutoExecute ==
    /\ pc = "flow"
    /\ flow_branch(suggestions) = "auto"
    /\ Execute(qcalls, suggestions[1])
    /\ UNCHANGED <<selVars, suggestions>>
    /\ QueryFrame

\* process_query_flow: run_tui(suggestions) up to the event loop
EnterTui ==
    /\ pc = "flow"
    /\ flow_branch(suggestions) = "tui"
    /\ qcalls' = Append(qcalls, QCall("run_tui", "none", FALSE, Len(suggestions)))
    /\ \E ok \in BOOLEAN :
        IF ok THEN /\ app' = App_new(suggestions)
                   /\ app0' = App_new(suggestions)
                   /\ pc' = "tui"
                   /\ UNCHANGED <<qerr, exit>>
              ELSE /\ UNCHANGED <<app, app0>>
                   /\ Fail("TuiFailed", "none", "none")
    /\ UNCHANGED <<action, event, suggestions>>
    /\ QueryFrame

\* run_tui: drawing, polling or reading fails in the loop, or restoring the
\* terminal fails after it.
TuiFail ==
    /\ pc \in {"tui", "act"}
    /\ Fail("TuiFailed", "none", "none")
    /\ UNCHANGED <<selVars, suggestions, qcalls>>
    /\ QueryFrame

\* UserAction::Execute(cmd)
ActExecute ==
    /\ pc = "act"
    /\ action.kind = "Execute"
    /\ Execute(qcalls, action.cmd)
    /\ UNCHANGED <<selVars, suggestions>>
    /\ QueryFrame

\* UserAction::Copy(cmd)
ActCopy ==
    /\ pc = "act"
    /\ action.kind = "Copy"
    /\ qcalls' = Append(qcalls, QCall("copy", action.cmd, FALSE, 0))
    /\ \E ok \in BOOLEAN :
        IF ok THEN exit' = 0 /\ qerr' = qerr /\ pc' = "exited"
              ELSE Fail("ClipboardFailed", "none", "none")
    /\ UNCHANGED <<selVars, suggestions>>
    /\ QueryFrame

\* What the user can commit in the line editor, trimmed and not empty.
EditedCommands == CommandSet \cup {"edited"}

\* UserAction::Edit(cmd): edit_command returns Err, None (cancelled or empty
\* line) or Some(edited).
ActEdit ==
    /\ pc = "act"
    /\ action.kind = "Edit"
    /\ LET log == Append(qcalls, QCall("edit", action.cmd, FALSE, 0))
       IN  \E r \in {"err", "none", "some"} :
            CASE r = "err" -> qcalls' = log /\ Fail("EditFailed", "none", "none")
              [] r = "none" -> /\ qcalls' = Append(log, QCall("edit_cancelled", "none", FALSE, 0))
                               /\ exit' = 0 /\ qerr' = qerr /\ pc' = "exited"
              [] r = "some" -> \E edited \in EditedCommands :
                                   Execute(Append(log, QCall("edit_committed", edited, FALSE, 0)),
                                           edited)
    /\ UNCHANGED <<selVars, suggestions>>
    /\ QueryFrame

\* UserAction::Abort
ActAbort ==
    /\ pc = "act"
    /\ action.kind = "Abort"
    /\ exit' = 0
    /\ pc' = "exited"
    /\ UNCHANGED <<selVars, suggestions, qcalls, qerr>>
    /\ QueryFrame

QueryNext ==
    \/ QIndexExists
    \/ QCheckConfig
    \/ QEmbed
    \/ QSearch
    \/ QLoadPage
    \/ QScanContext
    \/ QBuildPrompt
    \/ QGenerate
    \/ QParse
    \/ NoSuggestions
    \/ AutoExecute
    \/ EnterTui
    \/ HandleEvent
    \/ TuiFail
    \/ ActExecute
    \/ ActCopy
    \/ ActEdit
    \/ ActAbort

SpecQuery == QueryInit /\ [][QueryNext]_vars

\* ------------------------------------------------------------ properties
Scanned == RangeOf(all_paths)
Todo == RangeOf(paths_to_process)
Hashable(p) == compute_file_hash(files, p).ok
AllHashable == \A p \in Paths : files[p] # Unreadable
NoChangeSince == prev.lastOk /\ prev.modified = {} /\ ~prev.reshaped
CreateIndexCalled == "create_index" \in RangeOf(calls)
\* The index holds one row for every scanned manpage.
Covers(idx, paths) == idx.exists /\ {r.path : r \in idx.rows} = paths

\* C1: after a completed run, overwriting some files with different bytes and
\* running again (every extraction and embedding succeeding) embeds exactly
\* the modified files, once each, and leaves the index row count as it was
\* after the first run.  Stated for a first run that indexed every scanned
\* file, hashable files and a tracker that loads.
C1_IncrementalKeepsRows ==
    (/\ pc = "done" /\ result.status = "ok"
     /\ prev.lastOk /\ Covers(prev.index, Scanned)
     /\ prev.modified # {} /\ ~prev.reshaped
     /\ AllHashable /\ loaded
     /\ \A p \in Todo : outcome[p] = "ok")
    => /\ {p \in Paths : outcome[p] = "ok"} = prev.modified
       /\ Len(entries) = Cardinality(prev.modified)
       /\ Cardinality(index.rows) = Cardinality(prev.index.rows)

\* C2: whenever a setup or update run returned success and the index table
\* exists, the config's last_embedding_model equals its embedding_model and
\* its embedding_dimension equals the vector length of every stored row.
\* Stated for an index that holds at least one row.
C2_FingerprintMatchesIndex ==
    (pc = "done" /\ result.status = "ok" /\ index.exists /\ index.rows # {})
    => LET cfg == load_config(config)
       IN  /\ cfg.last_embedding_model = cfg.embedding_model
           /\ \A r \in index.rows : r.dim = cfg.embedding_dimension

\* C3: a setup that starts where the query's fingerprint check fails (stale
\* or unknown fingerprint), with the manpage files unchanged since the last
\* indexing run, and returns success, ends where the check passes and every
\* stored vector comes from the configured embedding model.  Stated for an
\* index that holds every scanned manpage.
C3_SetupRepairsFingerprint ==
    (/\ pc = "done" /\ kind = "setup" /\ result.status = "ok"
     /\ check0 \in {"IndexStale", "IndexFingerprintUnknown"}
     /\ NoChangeSince /\ Covers(prev.index, Scanned))
    => /\ FingerprintCheck(index, config) = "pass"
       /\ \A r \in index.rows : r.model = load_config(config).embedding_model

\* C4: in a run, the fingerprint write comes before the tracker save and the
\* tracker save before create_index; create_index is invoked only after a
\* successful tracker save and never after a failed write; with entries to
\* store, the tracker is saved only after a successful fingerprint write.
C4_WriteOrder ==
    \A i \in 1..Len(calls) :
        /\ calls[i] = "create_index" =>
            /\ \E j \in 1..(i - 1) : calls[j] = "tracker_save_ok"
            /\ \A j \in 1..(i - 1) : calls[j] \notin {"config_write_err", "tracker_save_err"}
        /\ calls[i] \in {"tracker_save_ok", "tracker_save_err"} =>
            /\ \A j \in 1..Len(calls) :
                   calls[j] \in {"config_write_ok", "config_write_err"} => j < i
            /\ entries # <<>> => \E j \in 1..(i - 1) : calls[j] = "config_write_ok"

C4_Witness ==
    /\ pc = "done" /\ result.status = "ok"
    /\ calls = <<"config_write_ok", "tracker_save_ok", "create_index">>

\* C5: a run that starts with a tracker file recording scanned paths but no
\* index, with no file changed since the tracker was saved, does not skip the
\* recorded paths: it processes them again and rebuilds the index.  Stated
\* for a tracker that loads and an interrupted run that had written its
\* fingerprint.
C5_StaleTrackerNotTrusted ==
    (/\ pc = "done" /\ result.status = "ok"
     /\ ~prev.index.exists /\ prev.trackerFile.exists /\ loaded
     /\ prev.config.last_embedding_model # NoModel
     /\ prev.modified = {} /\ ~prev.reshaped
     /\ \E p \in Scanned : prev.trackerFile.files[p] # NoHash)
    => /\ \A p \in Scanned : prev.trackerFile.files[p] # NoHash => p \in Todo
       /\ CreateIndexCalled
       /\ index.exists

\* C6: once create_index has been called over an existing index, at every
\* step, after every error return and after an interruption, the table
\* 'manpages' exists and holds all the old rows or all the new entries.
\* Stated for an old index that holds at least one row.
C6_AtomicReplace ==
    (CreateIndexCalled /\ prev.index.exists /\ prev.index.rows # {})
    => /\ index.exists
       /\ (index.rows = prev.index.rows \/ index.rows = RangeOf(entries))

\* C9: the tracker file holds a newly recorded hash for a path only if the
\* path's entry is among those the pipeline produced in this run, and a path
\* the pipeline dropped is selected again by filter_changed on the next run.
C9_HashOnlyForProcessed ==
    pc \notin {"idle", "f_start", "f_filtered", "f_updated", "f_refiltered"} =>
        /\ \A p \in Paths :
               (trackerFile.files[p] # NoHash
                /\ trackerFile.files[p] # prev.trackerFile.files[p])
               => outcome[p] = "ok"
        /\ pc = "done" =>
               \A p \in Paths :
                   outcome[p] = "dropped" =>
                       p \in RangeOf(filter_changed(
                                remove_deleted(IndexMetadata_load(trackerFile, TRUE), files),
                                files, scan_directories(files)).to_process)

\* A run that did nothing: no path went through the pipeline, create_index
\* was not called, index, tracker file and config are as they were when
\* run_indexing started, and the count of scanned (unchanged) pages is returned.
NoopRun ==
    /\ \A p \in Paths : outcome[p] = "none"
    /\ ~CreateIndexCalled
    /\ index = prev.index
    /\ trackerFile = prev.trackerFile
    /\ config = prev.config
    /\ result = Ok(Len(all_paths))

C7_FilterSound ==
    pc = "f_filtered" =>
        /\ \A i \in 1..Len(all_paths) :
               LET p == all_paths[i]
               IN  /\ p \notin Todo =>
                        /\ files[p] \in Contents
                        /\ Blake3(files[p]) = trackerFile.files[p]
                   /\ (\/ trackerFile.files[p] = NoHash
                       \/ files[p] \notin Contents
                       \/ Blake3(files[p]) # trackerFile.files[p]) => p \in Todo
        /\ unchanged = Len(all_paths) - Len(paths_to_process)

C7_Witness ==
    /\ pc = "f_filtered"
    /\ unchanged >= 1
    /\ \E p \in Todo : files[p] = Unreadable
    /\ Len(all_paths) = MaxLen

\* C8 as stated: after filter_changed(P), update_hashes(todo) and no file
\* change, a second filter_changed(P) returns an empty to-process list, also
\* when P holds paths whose hashing fails.
C8_RefilterEmpty ==
    pc = "f_refiltered" => refiltered.to_process = <<>>

\* C8 as amended: the second filter_changed(P) returns exactly the entries of
\* P whose hashing fails (so an empty list when every path of P can be
\* hashed), and counts every other entry as unchanged.
C8_RefilterOnlyUnhashable ==
    pc = "f_refiltered" =>
        /\ refiltered.to_process = SelectSeq(all_paths, LAMBDA p : ~Hashable(p))
        /\ refiltered.unchanged = Len(all_paths) - Len(refiltered.to_process)

C8_Witness ==
    /\ pc = "f_refiltered"
    /\ \E p \in Todo : Hashable(p) /\ trackerFile.files[p] \in Hashes
    /\ \E p \in Todo : ~Hashable(p)
    /\ Len(refiltered.to_process) = 1

\* ---------------------------------------------------- selector properties
NumSuggestions == Len(app.suggestions)
KeyHandled == event.type = "Key"
EmitCodes == {"Enter", "a", "A", "K", "b", "B"}
\* The digit keys that select nothing in the current list.
OutOfRangeDigit ==
    /\ KeyHandled /\ event.code \in DigitChars
    /\ (to_digit(event.code) = 0 \/ to_digit(event.code) > NumSuggestions)
\* The events no arm of handle_key binds.
Unbound ==
    \/ event.type = "Resize"
    \/ KeyHandled /\ event.code \in {"Tab", "x"}
    \/ KeyHandled /\ event.code = "c" /\ ~event.ctrl

\* C15: in a selector with n >= 1 suggestions, 0 <= selected < n always holds
\* and every event either returns no action and the loop goes on (unbound
\* keys and out-of-range digits leave selected unchanged), or returns one
\* action and the loop exits; Enter, a, A, K, b and B always return an action.
C15_SelectorTotal ==
    NumSuggestions >= 1 =>
        /\ app.selected >= 0 /\ app.selected < NumSuggestions
        /\ (action = NoAction /\ pc = "tui") \/ (action # NoAction /\ pc = "act")
        /\ action.kind \in {"None", "Execute", "Copy", "Edit", "Abort"}
        /\ (Unbound \/ OutOfRangeDigit) =>
               action = NoAction /\ app.selected = app0.selected
        /\ (KeyHandled /\ event.code \in EmitCodes) => action # NoAction

C15_Witness ==
    /\ pc = "act" /\ KeyHandled /\ event.code = "B"
    /\ action.kind = "Edit"
    /\ app0.selected >= 1

\* C16: Enter, a and A emit Execute(c), K emits Copy(c), b and B emit Edit(c)
\* with c the command of the suggestion selected when the key arrived, and
\* the suggestion list is never modified.
C16_EmitsSelected ==
    NumSuggestions >= 1 =>
        /\ app.suggestions = suggestions
        /\ (KeyHandled /\ event.code \in EmitCodes) =>
               /\ action.cmd = suggestions[app0.selected + 1]
               /\ event.code \in {"Enter", "a", "A"} => action.kind = "Execute"
               /\ event.code = "K" => action.kind = "Copy"
               /\ event.code \in {"b", "B"} => action.kind = "Edit"

C16_Witness ==
    /\ KeyHandled /\ event.code = "Enter"
    /\ app0.selected = 1
    /\ suggestions[1] # suggestions[2]
    /\ action = UserAction("Execute", suggestions[2])

\* C17: with n >= 1 suggestions Down and j set selected to (selected + 1) mod
\* n, Up and k to (selected - 1) mod n; both clear the status message and
\* emit no action; with n = 0 selected stays 0.
C17_NavigationWraps ==
    (KeyHandled /\ event.code \in {"Down", "j", "Up", "k"}) =>
        /\ action = NoAction
        /\ app.status_message = NoStatus
        /\ IF NumSuggestions = 0
           THEN app.selected = 0
           ELSE /\ event.code \in {"Down", "j"} =>
                       app.selected = (app0.selected + 1) % NumSuggestions
                /\ event.code \in {"Up", "k"} =>
                       app.selected = (app0.selected - 1) % NumSuggestions

C17_Witness ==
    /\ KeyHandled /\ event.code = "Down"
    /\ NumSuggestions >= 2
    /\ app0.selected = NumSuggestions - 1
    /\ app0.status_message # NoStatus
    /\ app.selected = 0

\* -------------------------------------------------- query flow properties
\* The errors with which process_query itself returns.
PipelineErrorKinds ==
    {"IndexCheckFailed", "IndexMissing", "ConfigLoadFailed", "IndexStale",
     "IndexFingerprintUnknown", "EmbedFailed", "SearchFailed", "NoMatches",
     "PageLoadFailed", "ContextScanFailed", "GenerateFailed", "ResponseInvalid"}
\* process_query has returned its suggestions to process_query_flow.
Returned ==
    \/ pc \in {"flow", "tui", "act"}
    \/ pc = "exited" /\ qerr.kind \notin PipelineErrorKinds
ExecuteCalls == {i \in 1..Len(qcalls) : qcalls[i].op = "execute"}

\* C11: no embed call (nor any later call) is made unless the index exists,
\* the config records a last_embedding_model and it equals the configured
\* embedding_model; the checks run in the order index-exists, model-differs,
\* fingerprint-absent and fail with IndexMissing, IndexStale(old, new) and
\* IndexFingerprintUnknown.
C11_ChecksBeforeEmbed ==
    LET cfg == load_config(config)
        differs == /\ cfg.last_embedding_model # NoModel
                   /\ cfg.last_embedding_model # cfg.embedding_model
    IN  /\ qcalls # <<>> =>
               /\ qcalls[1].op = "embed"
               /\ index.exists
               /\ cfg.last_embedding_model # NoModel
               /\ cfg.last_embedding_model = cfg.embedding_model
        /\ (pc = "exited" /\ qerr.kind # "IndexCheckFailed" /\ ~index.exists) =>
               qerr.kind = "IndexMissing" /\ qcalls = <<>>
        /\ (pc = "exited" /\ qerr.kind \notin {"IndexCheckFailed", "ConfigLoadFailed"}
            /\ index.exists) =>
               /\ differs =>
                      /\ qerr = QueryError("IndexStale", cfg.last_embedding_model,
                                           cfg.embedding_model)
                      /\ qcalls = <<>>
               /\ (~differs /\ cfg.last_embedding_model = NoModel) =>
                      qerr.kind = "IndexFingerprintUnknown" /\ qcalls = <<>>
        /\ qerr.kind = "IndexMissing" => ~index.exists
        /\ qerr.kind = "IndexStale" => index.exists /\ differs
        /\ qerr.kind = "IndexFingerprintUnknown" =>
               index.exists /\ cfg.last_embedding_model = NoModel

C11_Witness ==
    /\ pc = "exited"
    /\ qerr = QueryError("IndexStale", "nomic-embed-text", "mxbai-embed-large")
    /\ qcalls = <<>>

\* C12: when the vector embed returned for the query is not as long as the
\* config's embedding_dimension, the query fails with SchemaMismatch and no
\* vector search, page load or generate call is made.
C12_DimensionChecked ==
    (/\ qcalls # <<>> /\ qcalls[1].op = "embed"
     /\ qerr.kind # "EmbedFailed"
     /\ qcalls[1].n # load_config(config).embedding_dimension)
    => /\ Len(qcalls) = 1
       /\ pc = "exited" => qerr.kind = "SchemaMismatch"

\* C13: every embed call of an index build is made with the configured
\* models.embedding_model, so the model recorded as last_embedding_model is
\* the one that produced the stored vectors.
C13_BuildUsesConfiguredModel ==
    /\ \A i \in 1..Len(entries) :
           entries[i].model = load_config(config).embedding_model
    /\ (pc = "done" /\ result.status = "ok" /\ CreateIndexCalled /\ index.rows # {}) =>
           \A r \in index.rows : r.model = load_config(config).last_embedding_model

\* C14: generate is called with the configured models.llm_model, in JSON
\* mode, and only after search, page load, context scan and prompt build
\* succeeded in that order.
C14_GenerateUsesLlmModel ==
    \A i \in 1..Len(qcalls) :
        qcalls[i].op = "generate" =>
            /\ qcalls[i].arg = llm_model
            /\ qcalls[i].json
            /\ i = 6
            /\ <<qcalls[2].op, qcalls[3].op, qcalls[4].op, qcalls[5].op>>
               = <<"search", "load_page", "scan_context", "build_prompt">>

\* C18: the selector is entered only with more than one suggestion; with none
\* nothing is executed; with exactly one the selector is bypassed and that
\* suggestion's command is passed once to the executor, whose exit code is
\* the result.
C18_SelectorOnlyForMany ==
    LET n == Len(suggestions)
    IN  /\ "run_tui" \in QOps(qcalls) => n > 1
        /\ (Returned /\ n = 0) =>
               /\ ExecuteCalls = {}
               /\ pc = "exited" => exit = 0
        /\ (Returned /\ n = 1) =>
               /\ \A i \in ExecuteCalls : qcalls[i].arg = suggestions[1]
               /\ Cardinality(ExecuteCalls) <= 1
               /\ pc = "exited" =>
                      /\ Cardinality(ExecuteCalls) = 1
                      /\ qerr = NoError =>
                             \A i \in ExecuteCalls :
                                 exit = (IF qcalls[i].n = NoCode THEN 1 ELSE qcalls[i].n)

C18_Witness ==
    /\ pc = "exited" /\ qerr = NoError
    /\ Len(suggestions) = 1
    /\ \E i \in ExecuteCalls : qcalls[i].arg = suggestions[1] /\ qcalls[i].n = 2
    /\ exit = 2

\* C19: the executor is invoked only after the user confirmed in the
\* selector: after the selector was shown and returned Execute for that
\* command, or returned Edit and the user committed the edited command.
C19_ExecuteOnlyConfirmed ==
    \A i \in ExecuteCalls :
        /\ \E j \in 1..(i - 1) : qcalls[j].op = "run_tui"
        /\ \/ action = UserAction("Execute", qcalls[i].arg)
           \/ /\ action.kind = "Edit"
              /\ qcalls[i - 1].op = "edit_committed"
              /\ qcalls[i - 1].arg = qcalls[i].arg

\* C20: the exit status is 1 when a step failed; otherwise the exit code of
\* the executed command (1 when a signal ended it) when one was executed,
\* and 0 otherwise: Copy, Abort, a cancelled or empty edit.
C20_ExitStatus ==
    pc = "exited" =>
        /\ qerr # NoError => exit = 1
        /\ (qerr = NoError /\ ExecuteCalls # {}) =>
               \A i \in ExecuteCalls :
                   exit = (IF qcalls[i].n = NoCode THEN 1 ELSE qcalls[i].n)
        /\ (qerr = NoError /\ ExecuteCalls = {}) =>
               /\ exit = 0
               /\ \/ Len(suggestions) = 0
                  \/ action.kind \in {"Copy", "Abort"}
                  \/ action.kind = "Edit" /\ "edit_cancelled" \in QOps(qcalls)
        /\ (qerr = NoError /\ action.kind = "Execute") => ExecuteCalls # {}

C20_Witness ==
    /\ pc = "exited" /\ qerr = NoError
    /\ action.kind = "Edit"
    /\ \E i \in ExecuteCalls : qcalls[i].n = NoCode
    /\ exit = 1

\* ------------------------------------------- indexing run with no entries
\* The pipeline ran over at least one path and produced no entry.
EmptyPipelineRun ==
    /\ pc \in {"tracker", "ci_connect", "ci_list", "ci_drop", "ci_batch", "ci_create", "done"}
    /\ paths_to_process # <<>>
    /\ \A p \in RangeOf(paths_to_process) : outcome[p] = "dropped"
    /\ entries = <<>>

\* C30: a run whose pipeline produces no entries leaves the index rows, the
\* tracker file and the config fingerprint as they were: create_index is not
\* called with an empty entry list and no hash is recorded for the failed
\* paths.  Stated for a run that started over a built index.
C30_EmptyRunKeepsState ==
    (EmptyPipelineRun /\ prev.index.exists /\ prev.index.rows # {})
    => /\ index = prev.index
       /\ trackerFile = prev.trackerFile
       /\ config.embedding_dimension = prev.config.embedding_dimension
       /\ config.last_embedding_model = prev.config.last_embedding_model
       /\ ~CreateIndexCalled

\* ------------------------------------------------------ terminal properties
\* C21: on every path by which run_tui exits after raw mode was enabled (an
\* action, an error of any step, a failing cleanup step, a panic), raw mode
\* is disabled and the alternate screen is left when control is back at the
\* caller or the panic hook has run.
C21_TerminalRestored ==
    pc \in {"returned", "panicked"} => (raw = FALSE /\ alt = FALSE)

\* ------------------------------------------------- response parsing properties
\* The response is a JSON object with a suggestions list.
IsDocument == response.json
EmptyCommands == {i \in 1..Len(response.suggestions) : trim(response.suggestions[i].command) = <<>>}

\* C26: parse_suggestions returns an error and no suggestions if any
\* suggestion's command is empty after trimming, whatever its position;
\* otherwise it returns all suggestions in input order.
C26_RejectsEmptyCommand ==
    (pc = "p_done" /\ IsDocument) =>
        IF EmptyCommands # {}
        THEN parsed.status # "ok" /\ parsed.suggestions = <<>>
        ELSE /\ parsed.status = "ok"
             /\ Len(parsed.suggestions) = Len(response.suggestions)
             /\ \A i \in 1..Len(response.suggestions) :
                    parsed.suggestions[i].command = response.suggestions[i].command

\* C27: for a suggestion whose risk_level is absent or is not one of safe,
\* moderate, destructive, parsing succeeds and yields it with risk safe; a
\* recognised value is preserved.  Stated for documents without an empty
\* command.
C27_RiskDefaultsToSafe ==
    (pc = "p_done" /\ IsDocument /\ EmptyCommands = {}) =>
        /\ parsed.status = "ok"
        /\ Len(parsed.suggestions) = Len(response.suggestions)
        /\ \A i \in 1..Len(response.suggestions) :
               parsed.suggestions[i].risk_level =
                   (IF response.suggestions[i].risk_level \in RiskLevels
                    THEN response.suggestions[i].risk_level ELSE "safe")

\* ------------------------------------------------------- prompt properties
\* C28: for queries, page texts and directory contexts of any length, a
\* query or context longer than the budget included, build_prompt returns a
\* prompt of at most 48 100 bytes.
C28_PromptBudget ==
    pc = "b_done" => prompt_len <= MAX_PROMPT_LENGTH + 100

\* -------------------------------------------------------- setup properties
\* The models for which pull was invoked.
Pulled == {pulls[i].model : i \in 1..Len(pulls)}
\* The listed names hold the model the name stands for.
Listed(m) == Resolve(m) \in installed_names

\* C29: for each chosen model, pull is invoked if and only if the list
\* returned by list_models() lacks that model; indexing starts only after
\* every chosen model is present on the server; a failed pull aborts setup
\* before any indexing step.
C29_PullIffMissing ==
    /\ pc \in {"s_llm", "s_save", "s_indexing"} =>
           (chosen.embedding \in Pulled <=> ~Listed(chosen.embedding))
    /\ pc \in {"s_save", "s_indexing"} =>
           (chosen.llm \in Pulled <=> ~Listed(chosen.llm))
    /\ pc = "s_indexing" =>
           /\ Resolve(chosen.embedding) \in server
           /\ Resolve(chosen.llm) \in server
    /\ (\E i \in 1..Len(pulls) : ~pulls[i].ok) =>
           pc = "s_failed" /\ setup_result = "err"

\* --------------------------------------------------- embed retry properties
\* The embed calls made for descriptor i, and those that failed.
CallsOf(i) == {j \in 1..Len(attempts) : attempts[j].item = i}
FailedOf(i) == {j \in CallsOf(i) : ~attempts[j].ok}
SleepsOf(i) == {j \in 1..Len(sleeps) : sleeps[j].item = i}
Embedded(i) == i < item

InFlight == extracting + blocked + chan + embedding
Accounted == sink + extract_errors + embed_errors

\* C23: for any interleaving of the workers every input path is accounted
\* for exactly once: while the pipeline runs each drawn path is in exactly
\* one place, and when it has finished
\* |entries| + extract_errors + embed_errors = |paths|.
C23_EveryPathOnce ==
    /\ undrawn + InFlight + Accounted = Len(paths_to_process)
    /\ pc = "pl_done" => Accounted = Len(paths_to_process)

C23_Witness ==
    /\ pc = "pl_done"
    /\ Len(paths_to_process) = NumPipelinePaths
    /\ sink > 0 /\ extract_errors > 0 /\ embed_errors > 0

\* C25: the channel never holds more than 8 descriptors, at most 4
\* extractions and 4 embed calls are in progress, and an extractor with a
\* descriptor ready while the channel is full waits until an embedder has
\* received one.
C25_Bounded ==
    /\ [](/\ chan <= 8
          /\ extracting + blocked <= 4
          /\ embedding <= 4)
    /\ [][/\ ((chan = 8 /\ extracting' < extracting /\ extract_errors' = extract_errors)
                  => (blocked' = blocked + 1 /\ chan' = chan))
           /\ ((blocked' < blocked) => (chan < 8 /\ chan' = chan + 1))
           /\ ((blocked > 0 /\ chan = 8 /\ chan' < chan)
                  => (embedding' = embedding + 1))]_vars

C25_Witness ==
    /\ chan = 8
    /\ blocked > 0

\* C24: for every path list and every pattern of successes and failures the
\* pipeline terminates under fair scheduling with all paths drawn and the
\* channel drained, and no reachable state is a deadlock.
C24_Terminates ==
    /\ <>(pc = "pl_done" /\ undrawn = 0 /\ chan = 0)
    /\ [](pc = "pl_run" => ENABLED PipeNext)

C24_Witness ==
    /\ pc = "pl_done"
    /\ undrawn = 0 /\ chan = 0
    /\ Len(paths_to_process) = NumPipelinePaths
    /\ sink = NumPipelinePaths

====
